---- MODULE Spec2Model ----
(***************************************************************************)
(* Codex MCP core (src/src/mcp/codex-core.ts): the ask_codex pipeline      *)
(* handleAskCodex and the child-process invocation executeCodex.           *)
(*                                                                         *)
(* A text is a sequence of string pieces; concatenating texts is \o.       *)
(* The pieces "\n" and " " are the white space of a text, every other      *)
(* piece is a run of characters without white space at its ends.           *)
(***************************************************************************)
EXTENDS Integers, Sequences, FiniteSets, TLC

\* ------------------------------------------------------------------------
\* Bounds of the model
\* ------------------------------------------------------------------------
MaxEvents == 3
MaxOutLen == 1
MaxErrLen == 1
MaxCtxLen == 1
MaxRawLen == 3
MaxFileListLen == 2
MaxConcEvents == 2
MaxPages == 3
MaxComments == 3

\* ------------------------------------------------------------------------
\* Program constants
\* ------------------------------------------------------------------------
CODEX_VALID_ROLES == <<"architect", "planner", "critic", "code-reviewer", "security-reviewer">>
MAX_CONTEXT_FILES == 20
MAX_FILE_SIZE == 5 * 1024 * 1024
CODEX_DEFAULT_MODEL == "gpt-5.2"

\* ------------------------------------------------------------------------
\* Texts
\* ------------------------------------------------------------------------
NL == "\n"
SP == " "
WhiteSpace == {NL, SP}

RECURSIVE Range(_)
Range(s) == IF s = <<>> THEN {} ELSE {Head(s)} \cup Range(Tail(s))

\* Array.prototype.join
RECURSIVE Join(_, _)
Join(parts, sep) ==
  IF parts = <<>> THEN <<>>
  ELSE IF Len(parts) = 1 THEN Head(parts)
  ELSE Head(parts) \o sep \o Join(Tail(parts), sep)

\* a JavaScript string is falsy exactly when it has no character
IsEmptyText(t) == \A i \in 1..Len(t) : t[i] = ""

\* String.prototype.trim
RECURSIVE TrimLeft(_)
TrimLeft(t) ==
  IF t = <<>> THEN <<>>
  ELSE IF Head(t) \in WhiteSpace \cup {""} THEN TrimLeft(Tail(t))
  ELSE t

RECURSIVE TrimRight(_)
TrimRight(t) ==
  IF t = <<>> THEN <<>>
  ELSE IF t[Len(t)] \in WhiteSpace \cup {""} THEN TrimRight(SubSeq(t, 1, Len(t) - 1))
  ELSE t

Trim(t) == TrimRight(TrimLeft(t))

\* String.prototype.split('\n'): the lines of a text, as a sequence of texts
RECURSIVE SplitLines(_, _)
SplitLines(t, cur) ==
  IF t = <<>> THEN <<cur>>
  ELSE IF Head(t) = NL THEN <<cur>> \o SplitLines(Tail(t), <<>>)
  ELSE SplitLines(Tail(t), Append(cur, Head(t)))

RECURSIVE FilterNonBlank(_)
FilterNonBlank(ls) ==
  IF ls = <<>> THEN <<>>
  ELSE IF Trim(Head(ls)) # <<>> THEN <<Head(ls)>> \o FilterNonBlank(Tail(ls))
  ELSE FilterNonBlank(Tail(ls))

\* ------------------------------------------------------------------------
\* JSON.parse on the lines the engine can print.  A decoded value is
\* [isObject, type, content, text]; content is [kind, str, parts] with kind
\* one of "absent", "string", "array", "object".
\* ------------------------------------------------------------------------
NoContent == [kind |-> "absent", str |-> <<>>, parts |-> <<>>]
StrContent(t) == [kind |-> "string", str |-> t, parts |-> <<>>]
ArrContent(ps) == [kind |-> "array", str |-> <<>>, parts |-> ps]
ObjContent == [kind |-> "object", str |-> <<>>, parts |-> <<>>]
Part(ty, t) == [isObject |-> TRUE, type |-> ty, text |-> t]
NullPart == [isObject |-> FALSE, type |-> "", text |-> <<>>]
Event(ty, c, t) == [isObject |-> TRUE, type |-> ty, content |-> c, text |-> t]
NullValue == [isObject |-> FALSE, type |-> "", content |-> NoContent, text |-> <<>>]

LineMsgHi == "{\"type\":\"message\",\"content\":\"hi\"}"
LineOutThere == "{\"type\":\"output_text\",\"text\":\"there\"}"
LineMsgParts == "{\"type\":\"message\",\"content\":[{\"type\":\"text\",\"text\":\"a\"},{\"type\":\"image\"},{\"type\":\"text\",\"text\":\"b\"}]}"
LineMsgNullPart == "{\"type\":\"message\",\"content\":[{\"type\":\"text\",\"text\":\"a\"},null,{\"type\":\"text\",\"text\":\"b\"}]}"
LineMsgEmpty == "{\"type\":\"message\",\"content\":\"\"}"
LineMsgObject == "{\"type\":\"message\",\"content\":{\"k\":1}}"
LineMsgTwoLines == "{\"type\":\"message\",\"content\":\"x\\ny\"}"
LineOutEmpty == "{\"type\":\"output_text\",\"text\":\"\"}"
LineStatus == "{\"type\":\"status\",\"text\":\"busy\"}"
LineNull == "null"
LineNoise == "Loading..."
LineBroken == "{\"type\":\"message\",\"content\":"

JsonLines == {LineMsgHi, LineOutThere, LineMsgParts, LineMsgNullPart, LineMsgEmpty,
              LineMsgObject, LineMsgTwoLines, LineOutEmpty, LineStatus, LineNull}

JsonValue(piece) ==
  CASE piece = LineMsgHi -> Event("message", StrContent(<<"hi">>), <<>>)
    [] piece = LineOutThere -> Event("output_text", NoContent, <<"there">>)
    [] piece = LineMsgParts ->
         Event("message", ArrContent(<<Part("text", <<"a">>), Part("image", <<>>), Part("text", <<"b">>)>>), <<>>)
    [] piece = LineMsgNullPart ->
         Event("message", ArrContent(<<Part("text", <<"a">>), NullPart, Part("text", <<"b">>)>>), <<>>)
    [] piece = LineMsgEmpty -> Event("message", StrContent(<<>>), <<>>)
    [] piece = LineMsgObject -> Event("message", ObjContent, <<>>)
    [] piece = LineMsgTwoLines -> Event("message", StrContent(<<"x", NL, "y">>), <<>>)
    [] piece = LineOutEmpty -> Event("output_text", NoContent, <<>>)
    [] piece = LineStatus -> Event("status", NoContent, <<"busy">>)
    [] OTHER -> NullValue

\* JSON.parse(line): white space around the value is allowed, anything else
\* than one JSON value is a SyntaxError (ok = FALSE)
JSONParse(line) ==
  LET body == SelectSeq(line, LAMBDA x : x \notin WhiteSpace \cup {""})
  IN IF Len(body) = 1 /\ body[1] \in JsonLines
     THEN [ok |-> TRUE, value |-> JsonValue(body[1])]
     ELSE [ok |-> FALSE, value |-> NullValue]

Truthy(c) == c.kind \in {"array", "object"} \/ (c.kind = "string" /\ ~IsEmptyText(c.str))

\* the loop over event.content; reading part.type of a null part throws, the
\* fragments pushed before it stay in messages
RECURSIVE PartsFragments(_)
PartsFragments(parts) ==
  IF parts = <<>> THEN <<>>
  ELSE IF ~Head(parts).isObject THEN <<>>
  ELSE (IF Head(parts).type = "text" /\ ~IsEmptyText(Head(parts).text)
        THEN <<Head(parts).text>> ELSE <<>>) \o PartsFragments(Tail(parts))

PartsThrow(parts) == \E i \in 1..Len(parts) : ~parts[i].isObject

\* a try block that does not look for output_text events
EventFragmentsNoOutputText(e) ==
  IF ~e.isObject THEN <<>>
  ELSE IF e.type = "message" /\ Truthy(e.content)
  THEN IF e.content.kind = "string" THEN <<e.content.str>>
       ELSE IF e.content.kind = "array" THEN PartsFragments(e.content.parts)
       ELSE <<>>
  ELSE <<>>

\* the body of the try block for one decoded event: the texts pushed to messages
EventFragments(e) ==
  IF ~e.isObject THEN <<>>
  ELSE LET isMsg == e.type = "message" /\ Truthy(e.content)
           fromMsg == IF ~isMsg THEN <<>>
                      ELSE IF e.content.kind = "string" THEN <<e.content.str>>
                      ELSE IF e.content.kind = "array" THEN PartsFragments(e.content.parts)
                      ELSE <<>>
           threw == isMsg /\ e.content.kind = "array" /\ PartsThrow(e.content.parts)
           fromOut == IF ~threw /\ e.type = "output_text" /\ ~IsEmptyText(e.text)
                      THEN <<e.text>> ELSE <<>>
       IN fromMsg \o fromOut

LineFragments(line) ==
  LET parsed == JSONParse(line)
  IN IF parsed.ok THEN EventFragments(parsed.value) ELSE <<>>

\* one try/catch around the whole loop: the first line that throws ends it
RECURSIVE CollectMessagesAbort(_)
CollectMessagesAbort(lines) ==
  IF lines = <<>> THEN <<>>
  ELSE IF ~JSONParse(Head(lines)).ok \/ ~JSONParse(Head(lines)).value.isObject THEN <<>>
  ELSE LineFragments(Head(lines)) \o CollectMessagesAbort(Tail(lines))

RECURSIVE CollectMessages(_)
CollectMessages(lines) ==
  IF lines = <<>> THEN <<>>
  ELSE LineFragments(Head(lines)) \o CollectMessages(Tail(lines))

OutputLines(output) == FilterNonBlank(SplitLines(Trim(output), <<>>))

\* a fallback that returns the trimmed output
parseCodexOutputTrimmed(output) ==
  LET messages == CollectMessages(OutputLines(output))
      joined == Join(messages, <<NL>>)
  IN IF IsEmptyText(joined) THEN Trim(output) ELSE joined

parseCodexOutput(output) ==
  LET messages == CollectMessages(OutputLines(output))
      joined == Join(messages, <<NL>>)
  IN IF IsEmptyText(joined) THEN output ELSE joined

\* ------------------------------------------------------------------------
\* Configuration read once at module load
\* ------------------------------------------------------------------------
Unset == "<unset>"
EnvTexts == {Unset, "", "abc", "0", "-5", "4999", "5000", "12s", "250000", "600000", "600001"}
NaN == [nan |-> TRUE, n |-> 0]
Num(n) == [nan |-> FALSE, n |-> n]

\* parseInt(text, 10) on the texts of EnvTexts and on the default
ParseInt(text) ==
  CASE text = "0" -> Num(0)
    [] text = "-5" -> Num(-5)
    [] text = "4999" -> Num(4999)
    [] text = "5000" -> Num(5000)
    [] text = "12s" -> Num(12)
    [] text = "180000" -> Num(180000)
    [] text = "250000" -> Num(250000)
    [] text = "600000" -> Num(600000)
    [] text = "600001" -> Num(600001)
    [] OTHER -> NaN

Min(a, b) == IF a < b THEN a ELSE b
Max(a, b) == IF a > b THEN a ELSE b

\* Math.min(Math.max(5000, parseInt(env || '180000', 10) || 180000), 600000)
TimeoutOf(e) ==
  LET text == IF e = Unset \/ e = "" THEN "180000" ELSE e
      parsed == ParseInt(text)
      value == IF parsed.nan \/ parsed.n = 0 THEN 180000 ELSE parsed.n
  IN Min(Max(5000, value), 600000)

\* ------------------------------------------------------------------------
\* File system and context files
\* ------------------------------------------------------------------------
NonStringPath == "#42"
GoodPath == "notes.txt"
DirPath == "src"
ContextPaths == {GoodPath, DirPath, NonStringPath}

IsString(p) == p # NonStringPath
\* `${filePath}`
PathText(p) == IF p = NonStringPath THEN "42" ELSE p
\* path.resolve(filePath) against the working directory
Resolve(p) == <<"/work", p>>

FileEntry(k, sz, c) == [kind |-> k, size |-> sz, content |-> c]
InitialFs ==
  [q \in {Resolve(p) : p \in ContextPaths \ {NonStringPath}} |->
     IF q = Resolve(GoodPath) THEN FileEntry("file", 5, <<"alpha", NL, "beta">>)
     ELSE FileEntry("dir", 4096, <<>>)]

\* (stats.size / 1024 / 1024).toFixed(1)
ToFixed1(size) ==
  LET tenths == (size * 10 + 524288) \div 1048576
  IN <<ToString(tenths \div 10), ".", ToString(tenths % 10)>>

InvalidPathBlock(p) == <<"--- File: ", PathText(p), " --- (Invalid path type)">>
NotRegularBlock(p) == <<"--- File: ", PathText(p), " --- (Not a regular file)">>
TooLargeBlock(p, size) == <<"--- File: ", PathText(p), " --- (File too large: ">> \o ToFixed1(size) \o <<"MB, max 5MB)">>
ErrorBlock(p) == <<"--- File: ", PathText(p), " --- (Error reading file)">>
ContentBlock(p, content) == <<"--- File: ", PathText(p), " ---", NL>> \o content

\* a statSync that answers for a missing path
StatThrowsOnlyDenied(entry) == entry.kind = "denied"
\* statSync throws for a missing path and for a path that may not be searched
StatThrows(entry) == entry.kind \in {"missing", "denied"}
\* stats.isFile()
IsFile(entry) == entry.kind \in {"file", "unreadable"}
\* a size check that also refuses a file of exactly the cap
ExceedsCapOffByOne(size) == size >= MAX_FILE_SIZE
\* stats.size > MAX_FILE_SIZE
ExceedsCap(size) == size > MAX_FILE_SIZE
\* readFileSync throws for a file that may not be opened and for a directory
ReadThrows(entry) == entry.kind \in {"unreadable", "dir"}

\* what a context path can name
FileEntries ==
  { FileEntry("file", 5, <<"alpha", NL, "beta">>),
    FileEntry("file", MAX_FILE_SIZE, <<"<text of 5 MiB>">>),
    FileEntry("file", MAX_FILE_SIZE + 1, <<"<text of 5 MiB and one byte>">>),
    FileEntry("file", 6 * 1024 * 1024, <<"<text of 6 MiB>">>),
    FileEntry("dir", 4096, <<>>),
    FileEntry("special", 0, <<>>),
    FileEntry("missing", 0, <<>>),
    FileEntry("denied", 0, <<>>),
    FileEntry("unreadable", 7, <<"secret">>) }
FsChoices == [{Resolve(p) : p \in ContextPaths \ {NonStringPath}} -> FileEntries]

\* ------------------------------------------------------------------------
\* Requests
\* ------------------------------------------------------------------------
Requests == {"r1", "r2"}

RoleInputs == {"", "hacker", "Architect", "architect"}

Repeat(p, n) == [i \in 1..n |-> p]
ShortLists == UNION {[1..n -> ContextPaths] : n \in 1..MaxCtxLen}
Present(l) == [present |-> TRUE, list |-> l]
Absent == [present |-> FALSE, list |-> <<>>]
ContextFileInputs ==
  {Absent, Present(<<>>)} \cup {Present(l) : l \in ShortLists}
    \cup {Present(Repeat(GoodPath, MAX_CONTEXT_FILES)), Present(Repeat(GoodPath, MAX_CONTEXT_FILES + 1))}

PromptInputs == {<<"Review", SP, "this">>}

ArgInputs == [prompt : PromptInputs, agent_role : RoleInputs, context_files : ContextFileInputs]
NoArgs == [prompt |-> <<>>, agent_role |-> "", context_files |-> Absent]

\* detectCodexCli() results
Available == [available |-> TRUE, error |-> <<>>, installHint |-> <<>>]
NotAvailable == [available |-> FALSE,
                 error |-> <<"codex: command not found">>,
                 installHint |-> <<"Install Codex CLI: npm install -g @openai/codex">>]
DetectionResults == {Available, NotAvailable}

\* resolveSystemPrompt(undefined, agent_role)
resolveSystemPrompt(role) == <<"<system-instructions role=", role, ">">>

Undefined == [defined |-> FALSE, text |-> <<>>]
Defined(t) == [defined |-> TRUE, text |-> t]

\* buildPromptWithSystemContext(prompt, fileContext, resolvedSystemPrompt)
buildPromptWithSystemContext(prompt, fileContext, system) ==
  Join(<<system>> \o (IF fileContext.defined THEN <<fileContext.text>> ELSE <<>>) \o <<prompt>>,
       <<NL, NL>>)

TextBlock(t) == [type |-> "text", text |-> t]
\* a failure response that lacks the failure flag
ErrorResponseNoFlag(t) == [content |-> <<TextBlock(t)>>]
ErrorResponse(t) == [content |-> <<TextBlock(t)>>, isError |-> TRUE]
OkResponse(t) == [content |-> <<TextBlock(t)>>]

InvalidRoleText(role) ==
  <<"Invalid agent_role: \"", role, "\". Codex requires one of: ">> \o Join([i \in 1..Len(CODEX_VALID_ROLES) |-> <<CODEX_VALID_ROLES[i]>>], <<", ">>)
NotAvailableText(d) == <<"Codex CLI is not available: ">> \o d.error \o <<NL, NL>> \o d.installHint
TooManyFilesText(n) == <<"Too many context files (max ", ToString(MAX_CONTEXT_FILES), ", got ", ToString(n), ")">>

\* ------------------------------------------------------------------------
\* Events of one invocation
\* ------------------------------------------------------------------------
Code(n) == [isNull |-> FALSE, n |-> n]
NullCode == [isNull |-> TRUE, n |-> 0]
ExitCodes == {Code(0), Code(1), NullCode}
\* `${code}`
CodeText(c) == IF c.isNull THEN "null" ELSE ToString(c.n)

SpawnErrors == {"spawn codex ENOENT"}
StdinErrors == {"write EPIPE"}
StdoutChunks == {<<NL>>, <<LineMsgHi>>, <<LineNoise>>}
StderrChunks == {<<"boom">>}

NoEvent == [kind |-> "none", code |-> NullCode, err |-> ""]
TimerEvent == [kind |-> "timer", code |-> NullCode, err |-> ""]
CloseEvent(c) == [kind |-> "close", code |-> c, err |-> ""]
ErrorEvent(m) == [kind |-> "error", code |-> NullCode, err |-> m]
StdinErrorEvent(m) == [kind |-> "stdin_error", code |-> NullCode, err |-> m]

Pending == [state |-> "pending", value |-> <<>>]
Resolved(t) == [state |-> "resolved", value |-> t]
Rejected(m) == [state |-> "rejected", value |-> m]

TimeoutMessage(ms) == <<"Codex timed out after ", ToString(ms), "ms">>
ExitMessage(code, err) == <<"Codex exited with code ", CodeText(code), ": ">> \o (IF IsEmptyText(err) THEN <<"No output">> ELSE err)
SpawnMessage(m) == <<"Failed to spawn Codex CLI: ", m>>
StdinMessage(m) == <<"Stdin write error: ", m>>

\* ------------------------------------------------------------------------
\* State
\* ------------------------------------------------------------------------
VARIABLES
  env,                  \* process.env.OMC_CODEX_TIMEOUT at module load
  fs,                   \* the files behind the resolved context paths
  callers,              \* the requests the host issues
  pc,                   \* position of each handleAskCodex call
  args,                 \* the arguments of each call
  detection,            \* what detectCodexCli() returned
  resolvedSystemPrompt, \* what resolveSystemPrompt returned
  blocks,               \* the blocks validateAndReadFile returned so far
  fileIdx,              \* index of the context file being processed
  io,                   \* the I/O done for the call, counted by kind
  responses,            \* the responses returned to the caller
  child,                \* the spawned process as executeCodex sees it
  settled,              \* the settled flag of the invocation
  timeoutHandle,        \* "none", "pending", "fired" or "cleared"
  stdout,               \* captured standard output
  stderr,               \* captured standard error
  promise,              \* the state of the promise executeCodex returned
  completions,          \* the calls of resolve and of reject
  firstEvent,           \* the first terminal event delivered
  raw,                  \* a raw output handed to parseCodexOutput
  parsed,               \* what parseCodexOutput returned for raw
  edited,               \* raw with one line inserted, and what parseCodexOutput returned for it
  eventCount,           \* the number of terminal events delivered
  cleanup,              \* the cleanup loop of the maintenance workflow: server pages, page, hasMore, deletions
  alert,                \* the large-PR alert step: the issue's comments, the listing, the comments created
  hud                   \* the HUD renderer: config, context, and the header it rendered

parseVars == <<raw, parsed, edited>>
auxVars == <<cleanup, alert, hud>>
cfgVars == <<env, fs, callers, parseVars, auxVars>>
pipeVars == <<args, detection, resolvedSystemPrompt, blocks, fileIdx, io, responses>>
invVars == <<child, settled, timeoutHandle, stdout, stderr, promise, completions>>
histVars == <<firstEvent, eventCount>>
vars == <<env, fs, callers, pc, args, detection, resolvedSystemPrompt, blocks, fileIdx, io,
          responses, child, settled, timeoutHandle, stdout, stderr, promise, completions,
          firstEvent, eventCount, raw, parsed, edited, cleanup, alert, hud>>

CODEX_TIMEOUT == TimeoutOf(env)

NoIo == [probe |-> 0, sysRead |-> 0, stat |-> 0, read |-> 0, spawn |-> 0]
NoChild == [spawned |-> FALSE, argv |-> <<>>, kills |-> 0, stdin |-> <<>>, stdinEnded |-> FALSE]
NoCompletions == [resolve |-> 0, reject |-> 0]

InitRequests ==
  /\ fs = InitialFs
  /\ pc = [r \in Requests |-> "idle"]
  /\ args = [r \in Requests |-> NoArgs]
  /\ detection = [r \in Requests |-> Available]
  /\ resolvedSystemPrompt = [r \in Requests |-> <<>>]
  /\ blocks = [r \in Requests |-> <<>>]
  /\ fileIdx = [r \in Requests |-> 0]
  /\ io = [r \in Requests |-> NoIo]
  /\ responses = [r \in Requests |-> <<>>]
  /\ child = [r \in Requests |-> NoChild]
  /\ settled = [r \in Requests |-> FALSE]
  /\ timeoutHandle = [r \in Requests |-> "none"]
  /\ stdout = [r \in Requests |-> <<>>]
  /\ stderr = [r \in Requests |-> <<>>]
  /\ promise = [r \in Requests |-> Pending]
  /\ completions = [r \in Requests |-> NoCompletions]
  /\ firstEvent = [r \in Requests |-> NoEvent]
  /\ eventCount = [r \in Requests |-> 0]

SpecEnv == {Unset, "5000"}

NotParsed == [done |-> FALSE, text |-> <<>>]
NotEdited == [done |-> FALSE, line |-> <<>>, at |-> 0, raw |-> <<>>, text |-> <<>>]

NoCleanup == [kind |-> "none", server |-> <<>>, page |-> 1, hasMore |-> FALSE,
              pagesAccessed |-> <<>>, deleted |-> {}, deleteCalls |-> 0]
NoAlert == [issue |-> <<>>, listed |-> <<>>, phase |-> "off", createCalls |-> 0]
NoHud == [enabled |-> {}, context |-> {}, outputs |-> {}, rendered |-> FALSE, elements |-> <<>>, output |-> <<>>]

\* the maintenance workflow and the HUD are not running
InitAux ==
  /\ cleanup = NoCleanup
  /\ alert = NoAlert
  /\ hud = NoHud

\* no output is being parsed on its own
InitParser ==
  /\ raw = <<>>
  /\ parsed = NotParsed
  /\ edited = NotEdited

Init ==
  /\ env \in SpecEnv
  /\ callers = {"r1"}
  /\ InitRequests
  /\ InitParser
  /\ InitAux

\* ------------------------------------------------------------------------
\* handleAskCodex, stage by stage
\* ------------------------------------------------------------------------
Return(r, resp) ==
  /\ responses' = [responses EXCEPT ![r] = Append(@, resp)]
  /\ pc' = [pc EXCEPT ![r] = "done"]

Goto(r, label) == pc' = [pc EXCEPT ![r] = label]

Count(r, kind) == io' = [io EXCEPT ![r][kind] = @ + 1]

\* the host calls handleAskCodex(args)
Call(r, a) ==
  /\ r \in callers
  /\ pc[r] = "idle"
  /\ args' = [args EXCEPT ![r] = a]
  /\ Goto(r, "validate_role")
  /\ UNCHANGED <<cfgVars, detection, resolvedSystemPrompt, blocks, fileIdx, io, responses, invVars, histVars>>

\* a validator that only rejects the empty role
IsValidRoleNonEmptyOnly(role) == role # ""

IsValidRole(role) == role # "" /\ role \in Range(CODEX_VALID_ROLES)

\* a role check that probes for the engine before it looks at the role
ValidateRoleProbing(r) ==
  /\ pc[r] = "validate_role"
  /\ Count(r, "probe")
  /\ IF ~IsValidRole(args[r].agent_role)
     THEN Return(r, ErrorResponse(InvalidRoleText(args[r].agent_role)))
     ELSE Goto(r, "check_cli") /\ UNCHANGED responses
  /\ UNCHANGED <<cfgVars, args, detection, resolvedSystemPrompt, blocks, fileIdx, invVars, histVars>>

ValidateRole(r) ==
  /\ pc[r] = "validate_role"
  /\ IF ~IsValidRole(args[r].agent_role)
     THEN Return(r, ErrorResponse(InvalidRoleText(args[r].agent_role)))
     ELSE Goto(r, "check_cli") /\ UNCHANGED responses
  /\ UNCHANGED <<cfgVars, args, detection, resolvedSystemPrompt, blocks, fileIdx, io, invVars, histVars>>

\* an availability check whose result is not looked at
CheckCliIgnored(r, d) ==
  /\ pc[r] = "check_cli"
  /\ detection' = [detection EXCEPT ![r] = d]
  /\ Count(r, "probe")
  /\ Goto(r, "resolve_prompt")
  /\ UNCHANGED <<cfgVars, args, resolvedSystemPrompt, blocks, fileIdx, responses, invVars, histVars>>

CheckCli(r, d) ==
  /\ pc[r] = "check_cli"
  /\ detection' = [detection EXCEPT ![r] = d]
  /\ Count(r, "probe")
  /\ IF ~d.available
     THEN Return(r, ErrorResponse(NotAvailableText(d)))
     ELSE Goto(r, "resolve_prompt") /\ UNCHANGED responses
  /\ UNCHANGED <<cfgVars, args, resolvedSystemPrompt, blocks, fileIdx, invVars, histVars>>

ResolvePrompt(r) ==
  /\ pc[r] = "resolve_prompt"
  /\ resolvedSystemPrompt' = [resolvedSystemPrompt EXCEPT ![r] = resolveSystemPrompt(args[r].agent_role)]
  /\ Count(r, "sysRead")
  /\ Goto(r, "build_context")
  /\ UNCHANGED <<cfgVars, args, detection, blocks, fileIdx, responses, invVars, histVars>>

HasContextFiles(a) == a.context_files.present /\ Len(a.context_files.list) > 0
\* a count check that is off by one
TooManyFilesOffByOne(a) == Len(a.context_files.list) >= MAX_CONTEXT_FILES
TooManyFiles(a) == Len(a.context_files.list) > MAX_CONTEXT_FILES

BuildContext(r) ==
  /\ pc[r] = "build_context"
  /\ IF HasContextFiles(args[r])
     THEN IF TooManyFiles(args[r])
          THEN /\ Return(r, ErrorResponse(TooManyFilesText(Len(args[r].context_files.list))))
               /\ UNCHANGED fileIdx
          ELSE /\ Goto(r, "stat_file")
               /\ fileIdx' = [fileIdx EXCEPT ![r] = 1]
               /\ UNCHANGED responses
     ELSE /\ Goto(r, "compose")
          /\ UNCHANGED <<fileIdx, responses>>
  /\ UNCHANGED <<cfgVars, args, detection, resolvedSystemPrompt, blocks, io, invVars, histVars>>

\* the block of the current file is known: on to the next file or to compose
NextFile(r, block) ==
  /\ blocks' = [blocks EXCEPT ![r] = Append(@, block)]
  /\ IF fileIdx[r] < Len(args[r].context_files.list)
     THEN fileIdx' = [fileIdx EXCEPT ![r] = @ + 1] /\ Goto(r, "stat_file")
     ELSE UNCHANGED fileIdx /\ Goto(r, "compose")

CurrentPath(r) == args[r].context_files.list[fileIdx[r]]

\* validateAndReadFile up to and including the size check
StatFile(r) ==
  /\ pc[r] = "stat_file"
  /\ LET p == CurrentPath(r)
     IN IF ~IsString(p)
        THEN NextFile(r, InvalidPathBlock(p)) /\ UNCHANGED io
        ELSE /\ Count(r, "stat")
             /\ LET entry == fs[Resolve(p)]
                IN IF StatThrows(entry) THEN NextFile(r, ErrorBlock(p))
                   ELSE IF ~IsFile(entry) THEN NextFile(r, NotRegularBlock(p))
                   ELSE IF ExceedsCap(entry.size) THEN NextFile(r, TooLargeBlock(p, entry.size))
                   ELSE Goto(r, "read_file") /\ UNCHANGED <<blocks, fileIdx>>
  /\ UNCHANGED <<cfgVars, args, detection, resolvedSystemPrompt, responses, invVars, histVars>>

\* a read failure that fails the whole request
ReadFileEscalates(r) ==
  /\ pc[r] = "read_file"
  /\ Count(r, "read")
  /\ LET p == CurrentPath(r)
         entry == fs[Resolve(p)]
     IN IF ReadThrows(entry) \/ StatThrows(entry)
        THEN Return(r, ErrorResponse(ErrorBlock(p))) /\ UNCHANGED <<blocks, fileIdx>>
        ELSE NextFile(r, ContentBlock(p, entry.content)) /\ UNCHANGED responses
  /\ UNCHANGED <<cfgVars, args, detection, resolvedSystemPrompt, invVars, histVars>>

\* validateAndReadFile from readFileSync on
ReadFile(r) ==
  /\ pc[r] = "read_file"
  /\ Count(r, "read")
  /\ LET p == CurrentPath(r)
         entry == fs[Resolve(p)]
     IN IF ReadThrows(entry) \/ StatThrows(entry) THEN NextFile(r, ErrorBlock(p))
        ELSE NextFile(r, ContentBlock(p, entry.content))
  /\ UNCHANGED <<cfgVars, args, detection, resolvedSystemPrompt, responses, invVars, histVars>>

\* a file context that is built also for an empty list
FileContextOfAlways(r) ==
  IF args[r].context_files.present THEN Defined(Join(blocks[r], <<NL, NL>>)) ELSE Undefined
\* fileContext after lines 190-202
FileContextOf(r) ==
  IF HasContextFiles(args[r]) THEN Defined(Join(blocks[r], <<NL, NL>>)) ELSE Undefined

SpawnArgs(model) == <<"exec", "-m", model, "--json", "--full-auto">>

\* an invocation that never arms its timer
StartInvocationNoTimer(r, prompt, model) ==
  /\ settled' = [settled EXCEPT ![r] = FALSE]
  /\ child' = [child EXCEPT ![r] = [spawned |-> TRUE, argv |-> <<"codex">> \o SpawnArgs(model),
                                    kills |-> 0, stdin |-> prompt, stdinEnded |-> TRUE]]
  /\ Count(r, "spawn")
  /\ UNCHANGED timeoutHandle
  /\ stdout' = [stdout EXCEPT ![r] = <<>>]
  /\ stderr' = [stderr EXCEPT ![r] = <<>>]

\* the synchronous part of executeCodex(prompt, model)
StartInvocation(r, prompt, model) ==
  /\ settled' = [settled EXCEPT ![r] = FALSE]
  /\ child' = [child EXCEPT ![r] = [spawned |-> TRUE, argv |-> <<"codex">> \o SpawnArgs(model),
                                    kills |-> 0, stdin |-> prompt, stdinEnded |-> TRUE]]
  /\ Count(r, "spawn")
  /\ timeoutHandle' = [timeoutHandle EXCEPT ![r] = "pending"]
  /\ stdout' = [stdout EXCEPT ![r] = <<>>]
  /\ stderr' = [stderr EXCEPT ![r] = <<>>]

\* buildPromptWithSystemContext, then executeCodex up to the await
Compose(r) ==
  /\ pc[r] = "compose"
  /\ StartInvocation(r, buildPromptWithSystemContext(args[r].prompt, FileContextOf(r), resolvedSystemPrompt[r]),
                     CODEX_DEFAULT_MODEL)
  /\ Goto(r, "awaiting")
  /\ UNCHANGED <<cfgVars, args, detection, resolvedSystemPrompt, blocks, fileIdx, responses,
                 promise, completions, histVars>>

\* ------------------------------------------------------------------------
\* executeCodex: the handlers of the invocation's events
\* ------------------------------------------------------------------------
Running(r) == child[r].spawned

\* the event is delivered to its handler
Deliver(r, ev) ==
  /\ eventCount[r] < MaxEvents
  /\ eventCount' = [eventCount EXCEPT ![r] = @ + 1]
  /\ firstEvent' = [firstEvent EXCEPT ![r] = IF eventCount[r] = 0 THEN ev ELSE @]

\* handlers that do not look at the settled flag
AlwaysUnsettled(r) == TRUE

\* a settled flag kept in one variable of the module, shared by the invocations
UnsettledShared(r) == \A q \in Requests : ~settled[q]
\* if (!settled)
Unsettled(r) == ~settled[r]

\* resolve(value) and reject(error) of the promise: only the first call counts
CallResolve(r, value) ==
  /\ promise' = [promise EXCEPT ![r] = IF @.state = "pending" THEN Resolved(value) ELSE @]
  /\ completions' = [completions EXCEPT ![r].resolve = @ + 1]

CallReject(r, message) ==
  /\ promise' = [promise EXCEPT ![r] = IF @.state = "pending" THEN Rejected(message) ELSE @]
  /\ completions' = [completions EXCEPT ![r].reject = @ + 1]

\* child.kill('SIGTERM')
Kill(r) == child' = [child EXCEPT ![r].kills = @ + 1]

\* a handler that leaves the timer armed
ClearTimeoutForgotten(r) == timeoutHandle' = timeoutHandle
\* clearTimeout(timeoutHandle)
ClearTimeout(r) ==
  timeoutHandle' = [timeoutHandle EXCEPT ![r] = IF @ = "pending" THEN "cleared" ELSE @]

\* a timeout callback that forgets to terminate the child
OnTimeoutNoKill(r) ==
  /\ Running(r)
  /\ timeoutHandle[r] = "pending"
  /\ Deliver(r, TimerEvent)
  /\ timeoutHandle' = [timeoutHandle EXCEPT ![r] = "fired"]
  /\ IF ~settled[r]
     THEN /\ settled' = [settled EXCEPT ![r] = TRUE]
          /\ CallReject(r, TimeoutMessage(CODEX_TIMEOUT))
          /\ UNCHANGED child
     ELSE UNCHANGED <<settled, child, promise, completions>>
  /\ UNCHANGED <<cfgVars, pc, pipeVars, stdout, stderr>>

\* the callback given to setTimeout
OnTimeout(r) ==
  /\ Running(r)
  /\ timeoutHandle[r] = "pending"
  /\ Deliver(r, TimerEvent)
  /\ timeoutHandle' = [timeoutHandle EXCEPT ![r] = "fired"]
  /\ IF Unsettled(r)
     THEN /\ settled' = [settled EXCEPT ![r] = TRUE]
          /\ Kill(r)
          /\ CallReject(r, TimeoutMessage(CODEX_TIMEOUT))
     ELSE UNCHANGED <<settled, child, promise, completions>>
  /\ UNCHANGED <<cfgVars, pc, pipeVars, stdout, stderr>>

\* a success test on the untrimmed output
CloseIsSuccessNoTrim(code, out) == (~code.isNull /\ code.n = 0) \/ ~IsEmptyText(out)

\* code === 0 || stdout.trim()
CloseIsSuccess(code, out) == (~code.isNull /\ code.n = 0) \/ ~IsEmptyText(Trim(out))

\* child.on('close', code => ...)
OnClose(r, code) ==
  /\ Running(r)
  /\ Deliver(r, CloseEvent(code))
  /\ IF Unsettled(r)
     THEN /\ settled' = [settled EXCEPT ![r] = TRUE]
          /\ ClearTimeout(r)
          /\ IF CloseIsSuccess(code, stdout[r])
             THEN CallResolve(r, parseCodexOutput(stdout[r]))
             ELSE CallReject(r, ExitMessage(code, stderr[r]))
          /\ UNCHANGED child
     ELSE UNCHANGED <<settled, timeoutHandle, child, promise, completions>>
  /\ UNCHANGED <<cfgVars, pc, pipeVars, stdout, stderr>>

\* an error handler that terminates the child before it looks at the flag
OnErrorKillFirst(r, message) ==
  /\ Running(r)
  /\ Deliver(r, ErrorEvent(message))
  /\ Kill(r)
  /\ IF ~settled[r]
     THEN /\ settled' = [settled EXCEPT ![r] = TRUE]
          /\ ClearTimeout(r)
          /\ CallReject(r, SpawnMessage(message))
     ELSE UNCHANGED <<settled, timeoutHandle, promise, completions>>
  /\ UNCHANGED <<cfgVars, pc, pipeVars, stdout, stderr>>

\* child.on('error', err => ...)
OnError(r, message) ==
  /\ Running(r)
  /\ Deliver(r, ErrorEvent(message))
  /\ IF Unsettled(r)
     THEN /\ settled' = [settled EXCEPT ![r] = TRUE]
          /\ ClearTimeout(r)
          /\ Kill(r)
          /\ CallReject(r, SpawnMessage(message))
     ELSE UNCHANGED <<settled, timeoutHandle, child, promise, completions>>
  /\ UNCHANGED <<cfgVars, pc, pipeVars, stdout, stderr>>

\* a stdin error handler that leaves the child running
OnStdinErrorNoKill(r, message) ==
  /\ Running(r)
  /\ Deliver(r, StdinErrorEvent(message))
  /\ IF ~settled[r]
     THEN /\ settled' = [settled EXCEPT ![r] = TRUE]
          /\ ClearTimeout(r)
          /\ CallReject(r, StdinMessage(message))
          /\ UNCHANGED child
     ELSE UNCHANGED <<settled, timeoutHandle, child, promise, completions>>
  /\ UNCHANGED <<cfgVars, pc, pipeVars, stdout, stderr>>

\* child.stdin.on('error', err => ...)
OnStdinError(r, message) ==
  /\ Running(r)
  /\ Deliver(r, StdinErrorEvent(message))
  /\ IF Unsettled(r)
     THEN /\ settled' = [settled EXCEPT ![r] = TRUE]
          /\ ClearTimeout(r)
          /\ Kill(r)
          /\ CallReject(r, StdinMessage(message))
     ELSE UNCHANGED <<settled, timeoutHandle, child, promise, completions>>
  /\ UNCHANGED <<cfgVars, pc, pipeVars, stdout, stderr>>

\* child.stdout.on('data', ...)
OnStdoutData(r, chunk) ==
  /\ Running(r)
  /\ Len(stdout[r]) + Len(chunk) <= MaxOutLen
  /\ stdout' = [stdout EXCEPT ![r] = @ \o chunk]
  /\ UNCHANGED <<cfgVars, pc, pipeVars, child, settled, timeoutHandle, stderr, promise, completions, histVars>>

\* child.stderr.on('data', ...)
OnStderrData(r, chunk) ==
  /\ Running(r)
  /\ Len(stderr[r]) + Len(chunk) <= MaxErrLen
  /\ stderr' = [stderr EXCEPT ![r] = @ \o chunk]
  /\ UNCHANGED <<cfgVars, pc, pipeVars, child, settled, timeoutHandle, stdout, promise, completions, histVars>>

\* an await without the try/catch: the rejection leaves handleAskCodex
ResumeNoCatch(r) ==
  /\ pc[r] = "awaiting"
  /\ promise[r].state # "pending"
  /\ IF promise[r].state = "resolved"
     THEN Return(r, OkResponse(promise[r].value))
     ELSE Goto(r, "threw") /\ UNCHANGED responses
  /\ UNCHANGED <<cfgVars, args, detection, resolvedSystemPrompt, blocks, fileIdx, io, invVars, histVars>>

\* a catch block that runs the engine a second time
ResumeRetry(r) ==
  /\ pc[r] = "awaiting"
  /\ promise[r].state # "pending"
  /\ IF promise[r].state = "resolved"
     THEN Return(r, OkResponse(promise[r].value))
     ELSE IF io[r].spawn < 2
     THEN Goto(r, "compose") /\ UNCHANGED responses
     ELSE Return(r, ErrorResponse(<<"Codex CLI error: ">> \o promise[r].value))
  /\ UNCHANGED <<cfgVars, args, detection, resolvedSystemPrompt, blocks, fileIdx, io, invVars, histVars>>

\* handleAskCodex after the await: the try/catch around executeCodex
Resume(r) ==
  /\ pc[r] = "awaiting"
  /\ promise[r].state # "pending"
  /\ IF promise[r].state = "resolved"
     THEN Return(r, OkResponse(promise[r].value))
     ELSE Return(r, ErrorResponse(<<"Codex CLI error: ">> \o promise[r].value))
  /\ UNCHANGED <<cfgVars, args, detection, resolvedSystemPrompt, blocks, fileIdx, io, invVars, histVars>>

Next ==
  \/ \E r \in Requests, a \in ArgInputs : Call(r, a)
  \/ \E r \in Requests : ValidateRole(r)
  \/ \E r \in Requests, d \in DetectionResults : CheckCli(r, d)
  \/ \E r \in Requests : ResolvePrompt(r)
  \/ \E r \in Requests : BuildContext(r)
  \/ \E r \in Requests : StatFile(r)
  \/ \E r \in Requests : ReadFile(r)
  \/ \E r \in Requests : Compose(r)
  \/ \E r \in Requests : OnTimeout(r)
  \/ \E r \in Requests, code \in ExitCodes : OnClose(r, code)
  \/ \E r \in Requests, m \in SpawnErrors : OnError(r, m)
  \/ \E r \in Requests, m \in StdinErrors : OnStdinError(r, m)
  \/ \E r \in Requests, chunk \in StdoutChunks : OnStdoutData(r, chunk)
  \/ \E r \in Requests, chunk \in StderrChunks : OnStderrData(r, chunk)
  \/ \E r \in Requests : Resume(r)

Spec == Init /\ [][Next]_vars

\* the event loop runs a timer that is due
LiveSpec == Spec /\ \A r \in Requests : WF_vars(OnTimeout(r))

\* ------------------------------------------------------------------------
\* parseCodexOutput on its own
\* ------------------------------------------------------------------------
ParsePieces == {NL, SP, LineMsgHi, LineOutThere, LineMsgParts, LineMsgNullPart, LineMsgEmpty,
                LineStatus, LineNoise}
RawInputs == UNION {[1..n -> ParsePieces] : n \in 0..MaxRawLen}

\* lines that are blank, do not decode, or decode to a value that is no event
BadLines == {<<>>, <<SP>>, <<LineNoise>>, <<LineBroken>>, <<LineNull>>}

\* the text whose lines are those of t with line inserted after the first k
InsertLine(t, k, line) ==
  LET lines == SplitLines(t, <<>>)
  IN Join(SubSeq(lines, 1, k) \o <<line>> \o SubSeq(lines, k + 1, Len(lines)), <<NL>>)

ParseInit ==
  /\ raw \in RawInputs
  /\ parsed = NotParsed
  /\ edited = NotEdited
  /\ env = Unset
  /\ callers = {}
  /\ InitRequests
  /\ InitAux

ParseOutput ==
  /\ ~parsed.done
  /\ parsed' = [done |-> TRUE, text |-> parseCodexOutput(raw)]
  /\ UNCHANGED <<env, fs, callers, raw, edited, auxVars, pc, pipeVars, invVars, histVars>>

ParseEdited(k, line) ==
  /\ parsed.done
  /\ ~edited.done
  /\ k \in 0..Len(SplitLines(raw, <<>>))
  /\ edited' = [done |-> TRUE, line |-> line, at |-> k, raw |-> InsertLine(raw, k, line),
                text |-> parseCodexOutput(InsertLine(raw, k, line))]
  /\ UNCHANGED <<env, fs, callers, raw, parsed, auxVars, pc, pipeVars, invVars, histVars>>

ParseNext ==
  \/ ParseOutput
  \/ \E k \in 0..(MaxRawLen + 1), line \in BadLines : ParseEdited(k, line)

ParseSpec == ParseInit /\ [][ParseNext]_vars

\* ------------------------------------------------------------------------
\* The context assembler over every kind of file, up to the spawn
\* ------------------------------------------------------------------------
FileLists ==
  UNION {[1..n -> ContextPaths] : n \in 1..MaxFileListLen} \cup {Repeat(GoodPath, MAX_CONTEXT_FILES)}
FileArgInputs == [prompt : PromptInputs, agent_role : {"architect"},
                  context_files : {Present(l) : l \in FileLists}]

FileInit ==
  /\ env = Unset
  /\ callers = {"r1"}
  /\ fs \in FsChoices
  /\ pc = [r \in Requests |-> "idle"]
  /\ args = [r \in Requests |-> NoArgs]
  /\ detection = [r \in Requests |-> Available]
  /\ resolvedSystemPrompt = [r \in Requests |-> <<>>]
  /\ blocks = [r \in Requests |-> <<>>]
  /\ fileIdx = [r \in Requests |-> 0]
  /\ io = [r \in Requests |-> NoIo]
  /\ responses = [r \in Requests |-> <<>>]
  /\ child = [r \in Requests |-> NoChild]
  /\ settled = [r \in Requests |-> FALSE]
  /\ timeoutHandle = [r \in Requests |-> "none"]
  /\ stdout = [r \in Requests |-> <<>>]
  /\ stderr = [r \in Requests |-> <<>>]
  /\ promise = [r \in Requests |-> Pending]
  /\ completions = [r \in Requests |-> NoCompletions]
  /\ firstEvent = [r \in Requests |-> NoEvent]
  /\ eventCount = [r \in Requests |-> 0]
  /\ InitParser
  /\ InitAux

FileNext ==
  \/ \E r \in Requests, a \in FileArgInputs : Call(r, a)
  \/ \E r \in Requests : ValidateRole(r)
  \/ \E r \in Requests, d \in DetectionResults : CheckCli(r, d)
  \/ \E r \in Requests : ResolvePrompt(r)
  \/ \E r \in Requests : BuildContext(r)
  \/ \E r \in Requests : StatFile(r)
  \/ \E r \in Requests : ReadFile(r)
  \/ \E r \in Requests : Compose(r)

FileSpec == FileInit /\ [][FileNext]_vars

\* ------------------------------------------------------------------------
\* The module loaded under every environment override, up to a timeout
\* ------------------------------------------------------------------------
ConfigArgInputs == [prompt : PromptInputs, agent_role : {"architect"}, context_files : {Absent}]

ConfigInit ==
  /\ env \in EnvTexts
  /\ callers = {"r1"}
  /\ InitRequests
  /\ InitParser
  /\ InitAux

ConfigNext ==
  \/ \E r \in Requests, a \in ConfigArgInputs : Call(r, a)
  \/ \E r \in Requests : ValidateRole(r)
  \/ \E r \in Requests, d \in DetectionResults : CheckCli(r, d)
  \/ \E r \in Requests : ResolvePrompt(r)
  \/ \E r \in Requests : BuildContext(r)
  \/ \E r \in Requests : Compose(r)
  \/ \E r \in Requests : OnTimeout(r)
  \/ \E r \in Requests, c \in ExitCodes : OnClose(r, c)
  \/ \E r \in Requests : Resume(r)

ConfigSpec == ConfigInit /\ [][ConfigNext]_vars

\* ------------------------------------------------------------------------
\* Two requests at once: their invocations' events interleave
\* ------------------------------------------------------------------------
ConcArgInputs == [prompt : PromptInputs, agent_role : {"architect"}, context_files : {Absent}]

ConcInit ==
  /\ env = Unset
  /\ callers = Requests
  /\ InitRequests
  /\ InitParser
  /\ InitAux

\* the child of r has events left to emit
MayEmit(r) == eventCount[r] < MaxConcEvents
\* the child of r has written nothing yet
Silent(r) == stdout[r] = <<>> /\ stderr[r] = <<>>

ConcNext ==
  \/ \E r \in Requests, a \in ConcArgInputs : Call(r, a)
  \/ \E r \in Requests : ValidateRole(r)
  \/ \E r \in Requests : CheckCli(r, Available)
  \/ \E r \in Requests : ResolvePrompt(r)
  \/ \E r \in Requests : BuildContext(r)
  \/ \E r \in Requests : Compose(r)
  \/ \E r \in Requests : MayEmit(r) /\ OnTimeout(r)
  \/ \E r \in Requests, code \in ExitCodes : MayEmit(r) /\ OnClose(r, code)
  \/ \E r \in Requests, m \in SpawnErrors : MayEmit(r) /\ OnError(r, m)
  \/ \E r \in Requests, m \in StdinErrors : MayEmit(r) /\ OnStdinError(r, m)
  \/ \E r \in Requests, chunk \in StdoutChunks : Silent(r) /\ OnStdoutData(r, chunk)
  \/ \E r \in Requests, chunk \in StderrChunks : Silent(r) /\ OnStderrData(r, chunk)
  \/ \E r \in Requests : Resume(r)

ConcSpec == ConcInit /\ [][ConcNext]_vars

\* ------------------------------------------------------------------------
\* The context assembler while another process changes the files
\* ------------------------------------------------------------------------
RaceLists == {<<GoodPath>>, <<GoodPath, DirPath>>}
RaceArgInputs == [prompt : PromptInputs, agent_role : {"architect"},
                  context_files : {Present(l) : l \in RaceLists}]
\* what another process can turn a path into
RaceEntries ==
  { FileEntry("file", 5, <<"alpha", NL, "beta">>),
    FileEntry("file", 6 * 1024 * 1024, <<"<text of 6 MiB>">>),
    FileEntry("dir", 4096, <<>>),
    FileEntry("missing", 0, <<>>) }

RaceInit ==
  /\ env = Unset
  /\ callers = {"r1"}
  /\ InitRequests
  /\ InitParser
  /\ InitAux

\* another process replaces, grows, removes or creates the file at path q
FsChange(q, entry) ==
  /\ fs[q] # entry
  /\ fs' = [fs EXCEPT ![q] = entry]
  /\ UNCHANGED <<env, callers, parseVars, auxVars, pc, pipeVars, invVars, histVars>>

RaceNext ==
  \/ \E r \in Requests, a \in RaceArgInputs : Call(r, a)
  \/ \E r \in Requests : ValidateRole(r)
  \/ \E r \in Requests : CheckCli(r, Available)
  \/ \E r \in Requests : ResolvePrompt(r)
  \/ \E r \in Requests : BuildContext(r)
  \/ \E r \in Requests : StatFile(r)
  \/ \E q \in DOMAIN fs, entry \in RaceEntries : FsChange(q, entry)
  \/ \E r \in Requests : ReadFile(r)
  \/ \E r \in Requests : Compose(r)

RaceSpec == RaceInit /\ [][RaceNext]_vars

\* ------------------------------------------------------------------------
\* The cleanup loops of the maintenance workflow
\* (src/scripts/test-workflow-logic.cjs)
\* ------------------------------------------------------------------------
\* per_page of a listing request
PER_PAGE == 100
\* the day the workflow runs, as a day number
Today == 1000
\* days an artifact is kept, and days a cache may go unused
ArtifactRetentionDays == 30
CacheRetentionDays == 14
CleanupKinds == {"artifacts", "caches"}
RetentionDays(kind) == IF kind = "artifacts" THEN ArtifactRetentionDays ELSE CacheRetentionDays

\* a page of the listing: its length and the ages in days of its entries,
\* entry i having the age at position i of the pattern, repeated
AgePatterns == {<<40>>, <<1>>, <<40, 20, 30, 14, 1>>}
PageLens == {0, PER_PAGE - 1, PER_PAGE}
Pages == [len : PageLens, ages : AgePatterns]
EmptyPage == [len |-> 0, ages |-> <<1>>]
Servers == [1..MaxPages -> Pages]
\* the listing request for a page: past the last page the list is empty
ListPage(server, page) == IF page \in DOMAIN server THEN server[page] ELSE EmptyPage
AgeAt(pg, i) == pg.ages[((i - 1) % Len(pg.ages)) + 1]
\* new Date(entry.created_at) or new Date(cache.last_accessed_at)
CreatedAt(pg, i) == Today - AgeAt(pg, i)
EntryId(page, i) == (page - 1) * PER_PAGE + i
\* cutoffDate.setDate(cutoffDate.getDate() - days)
CutoffDate(kind) == Today - RetentionDays(kind)
\* createdAt < cutoffDate
IsOld(kind, pg, i) == CreatedAt(pg, i) < CutoffDate(kind)
\* a loop that goes on while pages are not empty
HasMoreNonEmpty(len) == len > 0
\* hasMore = list.length === 100
HasMore(len) == len = PER_PAGE

CleanupInit ==
  /\ cleanup \in {[kind |-> k, server |-> sv, page |-> 1, hasMore |-> TRUE,
                   pagesAccessed |-> <<>>, deleted |-> {}, deleteCalls |-> 0] :
                  k \in CleanupKinds, sv \in Servers}
  /\ alert = NoAlert
  /\ hud = NoHud
  /\ env = Unset
  /\ callers = {}
  /\ InitRequests
  /\ InitParser

\* one turn of the while loop: list the page, delete its old entries, set
\* hasMore, go to the next page
CleanupPage(kind) ==
  /\ cleanup.kind = kind
  /\ cleanup.hasMore
  /\ LET pg == ListPage(cleanup.server, cleanup.page)
         old == {i \in 1..pg.len : IsOld(kind, pg, i)}
     IN cleanup' = [cleanup EXCEPT !.pagesAccessed = Append(@, cleanup.page),
                                   !.deleted = @ \cup {EntryId(cleanup.page, i) : i \in old},
                                   !.deleteCalls = @ + Cardinality(old),
                                   !.hasMore = HasMore(pg.len),
                                   !.page = @ + 1]
  /\ UNCHANGED <<env, fs, callers, parseVars, alert, hud, pc, pipeVars, invVars, histVars>>

CleanupNext == \E kind \in CleanupKinds : CleanupPage(kind)

CleanupSpec == CleanupInit /\ [][CleanupNext]_vars

\* ------------------------------------------------------------------------
\* The large-PR alert of the maintenance workflow
\* (src/scripts/test-workflow-logic.cjs)
\* ------------------------------------------------------------------------
AlertNeedle == "Large PR Alert"
Comment(body, userType) == [body |-> body, user |-> [type |-> userType]]
CommentKinds ==
  { Comment(<<"Great PR!">>, "User"),
    Comment(<<"Great PR!">>, "Bot"),
    Comment(<<"**", "Large PR Alert", "**", NL, NL, "This is large.">>, "Bot"),
    Comment(<<"**", "Large PR Alert", "**", NL, NL, "This is large.">>, "User"),
    Comment(<<"**", "large pr alert", "**">>, "Bot") }
CommentLists == UNION {[1..n -> CommentKinds] : n \in 0..MaxComments}

\* body.includes(needle), the needle being one piece of the text
Includes(body, needle) == \E i \in 1..Len(body) : body[i] = needle
\* a test that takes anybody's alert for the bot's
IsExistingAlertAnyUser(c) == Includes(c.body, AlertNeedle)
\* c.body.includes('Large PR Alert') && c.user.type === 'Bot'
IsExistingAlert(c) == Includes(c.body, AlertNeedle) /\ c.user.type = "Bot"
\* comments.find(...): the first match, or undefined
Find(comments) ==
  IF \E i \in 1..Len(comments) : IsExistingAlert(comments[i])
  THEN Defined(comments[CHOOSE i \in 1..Len(comments) :
                          /\ IsExistingAlert(comments[i])
                          /\ \A j \in 1..(i - 1) : ~IsExistingAlert(comments[j])])
  ELSE Undefined

AlertInit ==
  /\ alert \in {[issue |-> cs, listed |-> <<>>, phase |-> "start", createCalls |-> 0] : cs \in CommentLists}
  /\ cleanup = NoCleanup
  /\ hud = NoHud
  /\ env = Unset
  /\ callers = {}
  /\ InitRequests
  /\ InitParser

\* github.rest.issues.listComments(...)
ListComments ==
  /\ alert.phase = "start"
  /\ alert' = [alert EXCEPT !.listed = alert.issue, !.phase = "listed"]
  /\ UNCHANGED <<env, fs, callers, parseVars, cleanup, hud, pc, pipeVars, invVars, histVars>>

\* if (!existingAlert) createComment(...)
CommentIfAbsent ==
  /\ alert.phase = "listed"
  /\ alert' = [alert EXCEPT !.createCalls = IF ~Find(alert.listed).defined THEN @ + 1 ELSE @,
                            !.phase = "done"]
  /\ UNCHANGED <<env, fs, callers, parseVars, cleanup, hud, pc, pipeVars, invVars, histVars>>

AlertNext == ListComments \/ CommentIfAbsent

AlertSpec == AlertInit /\ [][AlertNext]_vars

\* ------------------------------------------------------------------------
\* The HUD renderer (src/unnamed/part_000)
\* ------------------------------------------------------------------------
\* the header elements in the order render() looks at them
HudElementOrder ==
  <<"omcLabel", "rateLimits", "permissionStatus", "thinking", "sessionHealth", "ralph",
    "autopilot", "prdStory", "activeSkills", "lastSkill", "contextBar", "agents", "backgroundTasks">>
\* the elements that are only rendered when the context has their state
NeedsContext ==
  {"rateLimits", "permissionStatus", "thinking", "sessionHealth", "ralph", "autopilot", "prdStory"}
\* the configurations, contexts and renderer results render() is called with:
\* the elements enabled, the states present, the elements whose renderer
\* returns a non-empty string
HudEnabledInputs == SUBSET {"omcLabel", "ralph", "autopilot", "prdStory"}
HudContextInputs == SUBSET {"ralph", "autopilot", "prdStory"}
HudOutputInputs == SUBSET {"ralph", "autopilot", "prdStory"}
\* what the renderer of an element returns
ElementText(name) == IF name = "omcLabel" THEN "[OMC]" ELSE "<" \o name \o ">"

\* the element is pushed on the header
Pushed(h, name) ==
  /\ name \in h.enabled
  /\ name \in NeedsContext => name \in h.context
  /\ name = "lastSkill" => "activeSkills" \notin h.enabled
  /\ name # "omcLabel" => name \in h.outputs

HudInit ==
  /\ hud \in {[enabled |-> e, context |-> c, outputs |-> o, rendered |-> FALSE,
               elements |-> <<>>, output |-> <<>>] :
              e \in HudEnabledInputs, c \in HudContextInputs, o \in HudOutputInputs}
  /\ cleanup = NoCleanup
  /\ alert = NoAlert
  /\ env = Unset
  /\ callers = {}
  /\ InitRequests
  /\ InitParser

\* render(context, config) without agents and todos: a single line
Render ==
  /\ ~hud.rendered
  /\ LET elements == SelectSeq(HudElementOrder, LAMBDA name : Pushed(hud, name))
     IN hud' = [hud EXCEPT !.rendered = TRUE,
                           !.elements = elements,
                           !.output = Join([i \in 1..Len(elements) |-> <<ElementText(elements[i])>>], <<" | ">>)]
  /\ UNCHANGED <<env, fs, callers, parseVars, cleanup, alert, pc, pipeVars, invVars, histVars>>

HudNext == Render

HudSpec == HudInit /\ [][HudNext]_vars

TypeOK ==
  /\ env \in EnvTexts
  /\ callers \subseteq Requests
  /\ \A r \in Requests :
       /\ pc[r] \in {"idle", "validate_role", "check_cli", "resolve_prompt", "build_context",
                     "stat_file", "read_file", "compose", "awaiting", "done", "threw"}
       /\ settled[r] \in BOOLEAN
       /\ timeoutHandle[r] \in {"none", "pending", "fired", "cleared"}
       /\ promise[r].state \in {"pending", "resolved", "rejected"}
       /\ eventCount[r] \in 0..MaxEvents
       /\ Len(responses[r]) <= 1
  /\ cleanup.page >= 1
  /\ cleanup.hasMore \in BOOLEAN
  /\ alert.createCalls \in 0..1
  /\ hud.rendered \in BOOLEAN

\* ------------------------------------------------------------------------
\* Properties
\* ------------------------------------------------------------------------
AllowList == {"architect", "planner", "critic", "code-reviewer", "security-reviewer"}

\* sub occurs in text as a run of consecutive pieces
InText(sub, text) ==
  \E i \in 0..(Len(text) - Len(sub)) : SubSeq(text, i + 1, i + Len(sub)) = sub

StartsWith(text, piece) == text # <<>> /\ text[1] = piece

Calls(r) == completions[r].resolve + completions[r].reject
Returned(r) == pc[r] = "done" /\ Len(responses[r]) = 1
ResponseText(r) == responses[r][1].content[1].text
IsFailure(resp) == "isError" \in DOMAIN resp /\ resp.isError = TRUE
FileCount(r) == IF args[r].context_files.present THEN Len(args[r].context_files.list) ELSE 0

TimedOut(r) == promise[r].state = "rejected" /\ StartsWith(promise[r].value, "Codex timed out after ")
SpawnFailed(r) == promise[r].state = "rejected" /\ StartsWith(promise[r].value, "Failed to spawn Codex CLI: ")
StdinFailed(r) == promise[r].state = "rejected" /\ StartsWith(promise[r].value, "Stdin write error: ")
ExitFailed(r) == promise[r].state = "rejected" /\ StartsWith(promise[r].value, "Codex exited with code ")
Succeeded(r) == promise[r].state = "resolved"

\* C1: whatever events are delivered and however often, resolve and reject are
\* called at most once in total, and the settled flag is set exactly when that
\* one call has been made (so it goes from false to true at most once)
C1_SettlesAtMostOnce ==
  \A r \in Requests :
    /\ Calls(r) <= 1
    /\ settled[r] <=> (Calls(r) = 1)
    /\ (promise[r].state # "pending") <=> settled[r]

\* C1 witness: the event budget is used up on an invocation, which has one outcome
C1_Witness ==
  \E r \in Requests : eventCount[r] = MaxEvents /\ settled[r] /\ Calls(r) = 1

\* C2: every invocation that has been started eventually settles, given only
\* that a pending timer eventually fires
C2_EventuallySettles ==
  \A r \in Requests : Running(r) ~> settled[r]

\* C2 witness: the child never emitted anything and the timer settled the invocation
C2_Witness ==
  \E r \in Requests :
    /\ settled[r] /\ eventCount[r] = 1 /\ firstEvent[r].kind = "timer"
    /\ stdout[r] = <<>> /\ stderr[r] = <<>>

\* the kind of outcome that belongs to each kind of event
OutcomeMatches(r, ev) ==
  CASE ev.kind = "timer" -> TimedOut(r)
    [] ev.kind = "close" -> Succeeded(r) \/ ExitFailed(r)
    [] ev.kind = "error" -> SpawnFailed(r) /\ promise[r].value[2] = ev.err
    [] ev.kind = "stdin_error" -> StdinFailed(r) /\ promise[r].value[2] = ev.err
    [] OTHER -> FALSE

\* C3: the first event delivered while running settles the invocation with the
\* outcome of its own kind; an event delivered after that changes neither the
\* outcome nor the settled flag and requests no kill
C3_FirstEventWins ==
  [][\A r \in Requests :
       /\ (eventCount[r] = 0 /\ eventCount'[r] = 1) =>
            (settled'[r] /\ Calls(r)' = 1 /\ OutcomeMatches(r, firstEvent[r])')
       /\ (settled[r] /\ eventCount'[r] > eventCount[r]) =>
            /\ settled'[r]
            /\ promise'[r] = promise[r]
            /\ completions'[r] = completions[r]
            /\ child'[r].kills = child[r].kills
            /\ firstEvent'[r] = firstEvent[r]]_vars

\* C3 witness: close came first and settled as success, later events were delivered
C3_Witness ==
  \E r \in Requests :
    /\ firstEvent[r].kind = "close" /\ eventCount[r] >= 2
    /\ Succeeded(r) /\ child[r].kills = 0

\* C4: when the timer is the first event the child is sent a termination
\* signal and the invocation is a timeout failure whose message names
\* CODEX_TIMEOUT; exactly one kill is seen, also after later events
C4_TimeoutKillsOnce ==
  \A r \in Requests :
    firstEvent[r].kind = "timer" =>
      /\ TimedOut(r)
      /\ promise[r].value = <<"Codex timed out after ", ToString(TimeoutOf(env)), "ms">>
      /\ TimeoutOf(env) \in 5000..600000
      /\ child[r].kills = 1

\* C4 witness: the timer fired first and other events followed
C4_Witness ==
  \E r \in Requests :
    firstEvent[r].kind = "timer" /\ eventCount[r] >= 2 /\ child[r].kills = 1

\* the outcome the close handler is said to produce, for a given reading of
\* "stdout is non-empty"
CloseOutcomeIs(r, code, out, err, nonEmpty) ==
  IF code = Code(0) \/ nonEmpty
  THEN promise[r] = Resolved(parseCodexOutput(out))
  ELSE /\ promise[r].state = "rejected"
       /\ InText(<<CodeText(code)>>, promise[r].value)
       /\ IF err = <<>> THEN InText(<<"No output">>, promise[r].value)
          ELSE InText(err, promise[r].value)

CloseIsFirst(r) == eventCount[r] = 0 /\ eventCount'[r] = 1 /\ firstEvent'[r].kind = "close"

\* C5 as claimed: when close is the first event the invocation is a success
\* exactly if the exit code is zero or the captured stdout is not the empty text
C5_Original ==
  [][\A r \in Requests :
       CloseIsFirst(r) =>
         CloseOutcomeIs(r, firstEvent[r].code, stdout[r], stderr[r], stdout[r] # <<>>)']_vars

\* C5 amended: when close is the first event the invocation is a success
\* exactly if the exit code is zero or the captured stdout has a character
\* that is not white space; otherwise a failure with the exit code and the
\* captured stderr, or a placeholder when stderr is empty
C5_CloseOutcome ==
  [][\A r \in Requests :
       CloseIsFirst(r) =>
         CloseOutcomeIs(r, firstEvent[r].code, stdout[r], stderr[r],
                        \E i \in 1..Len(stdout[r]) : stdout[r][i] \notin {NL, SP, ""})']_vars

\* C5 witness: close came first with a non-zero code and blank stdout
C5_Witness ==
  \E r \in Requests :
    /\ firstEvent[r].kind = "close" /\ firstEvent[r].code = Code(1)
    /\ stdout[r] = <<NL>> /\ ExitFailed(r) /\ eventCount[r] = 1

\* C6: a failure through timeout, spawn failure or stdin write failure has a
\* termination request by the time it settles; a success never has one
C6_KillOnFailureOnly ==
  \A r \in Requests :
    /\ (TimedOut(r) \/ SpawnFailed(r) \/ StdinFailed(r)) => child[r].kills >= 1
    /\ Succeeded(r) => child[r].kills = 0

\* C6 witness: a stdin write failure settled the invocation and the child was killed
C6_Witness ==
  \E r \in Requests : StdinFailed(r) /\ child[r].kills = 1 /\ eventCount[r] >= 2

\* C7: a role that is empty or outside the allow-list gives a failure response
\* that names the value and lists the valid roles, and no process is spawned
C7_InvalidRoleRejected ==
  \A r \in Requests :
    (pc[r] \notin {"idle", "validate_role"} /\ args[r].agent_role \notin AllowList) =>
      /\ Returned(r)
      /\ IsFailure(responses[r][1])
      /\ InText(<<"Invalid agent_role: \"", args[r].agent_role>>, ResponseText(r))
      /\ \A role \in AllowList : \E i \in 1..Len(ResponseText(r)) : ResponseText(r)[i] = role
      /\ io[r].spawn = 0 /\ ~child[r].spawned

\* C7 witness: a request with context files and an unknown role was rejected
C7_Witness ==
  \E r \in Requests :
    Returned(r) /\ args[r].agent_role = "hacker" /\ FileCount(r) > 0
      /\ IsFailure(responses[r][1])

\* C8: more than 20 context files give a failure response, no context file is
\* stat'ed or read and nothing is spawned; 1 to 20 files are never rejected
\* for their number
C8_FileCountLimit ==
  \A r \in Requests :
    /\ FileCount(r) > 20 =>
         /\ io[r].stat = 0 /\ io[r].read = 0 /\ io[r].spawn = 0 /\ ~child[r].spawned
         /\ pc[r] \in {"idle", "validate_role", "check_cli", "resolve_prompt", "build_context", "done"}
         /\ Returned(r) => IsFailure(responses[r][1])
    /\ (FileCount(r) \in 1..20 /\ Returned(r)) =>
         ~StartsWith(ResponseText(r), "Too many context files (max ")

\* C8 witness: a request with a valid role and 21 files was rejected for its file count
C8_Witness ==
  \E r \in Requests :
    /\ Returned(r) /\ FileCount(r) = 21 /\ args[r].agent_role \in AllowList
    /\ ResponseText(r) = <<"Too many context files (max ", "20", ", got ", "21", ")">>

IsValidationFailure(r) ==
  /\ Returned(r)
  /\ \/ StartsWith(ResponseText(r), "Invalid agent_role: \"")
     \/ StartsWith(ResponseText(r), "Too many context files (max ")

\* C9: when handleAskCodex ends in a validation failure (invalid role, too many
\* context files) no availability probe, no system-prompt or context-file
\* read and no spawn has happened
C9_ValidationBeforeIO ==
  \A r \in Requests :
    IsValidationFailure(r) =>
      io[r].probe = 0 /\ io[r].sysRead = 0 /\ io[r].stat = 0 /\ io[r].read = 0 /\ io[r].spawn = 0

\* C10: with a valid role and an engine reported as not available the response
\* is a failure carrying the diagnostic and the install hint, and no engine
\* process is spawned
C10_UnavailableRejected ==
  \A r \in Requests :
    (args[r].agent_role \in AllowList /\ io[r].probe > 0 /\ ~detection[r].available) =>
      /\ Returned(r)
      /\ IsFailure(responses[r][1])
      /\ InText(detection[r].error, ResponseText(r))
      /\ InText(detection[r].installHint, ResponseText(r))
      /\ io[r].spawn = 0 /\ ~child[r].spawned

\* C10 witness: a well-formed request was rejected because the engine is missing
C10_Witness ==
  \E r \in Requests :
    /\ Returned(r) /\ args[r].agent_role = "architect" /\ FileCount(r) \in 1..20
    /\ ~detection[r].available /\ io[r].probe = 1
    /\ InText(<<"codex: command not found">>, ResponseText(r))

\* a stage of the pipeline has failed for the request
StageFailed(r) ==
  \/ pc[r] \notin {"idle", "validate_role"} /\ args[r].agent_role \notin AllowList
  \/ io[r].probe > 0 /\ ~detection[r].available
  \/ /\ FileCount(r) > 20
     /\ pc[r] \notin {"idle", "validate_role", "check_cli", "resolve_prompt", "build_context"}
  \/ promise[r].state = "rejected" /\ pc[r] # "awaiting"

C12_ResponseShape ==
  \A r \in Requests :
    pc[r] = "done" =>
      /\ Len(responses[r]) = 1
      /\ Len(responses[r][1].content) = 1
      /\ DOMAIN responses[r][1].content[1] = {"type", "text"}
      /\ responses[r][1].content[1].type = "text"
      /\ IF Succeeded(r)
         THEN DOMAIN responses[r][1] = {"content"}
         ELSE /\ DOMAIN responses[r][1] = {"content", "isError"}
              /\ responses[r][1].isError = TRUE
              /\ \/ args[r].agent_role \notin AllowList
                 \/ ~detection[r].available
                 \/ FileCount(r) > 20
                 \/ TimedOut(r) \/ SpawnFailed(r) \/ StdinFailed(r) \/ ExitFailed(r)

\* C12 witness: a non-zero exit without output was returned as a flagged response
C12_Witness ==
  \E r \in Requests :
    Returned(r) /\ ExitFailed(r) /\ stdout[r] = <<>> /\ IsFailure(responses[r][1])

\* C20: a request spawns the engine at most once; a failed invocation is
\* returned as it is, without another spawn
C20_NoRetries ==
  \A r \in Requests :
    /\ io[r].spawn <= 1
    /\ (promise[r].state = "rejected" /\ pc[r] # "awaiting") =>
         /\ Returned(r)
         /\ io[r].spawn = 1
         /\ ResponseText(r) = <<"Codex CLI error: ">> \o promise[r].value
         /\ IsFailure(responses[r][1])

\* C20 witness: a timed-out invocation was returned and later events arrived, with one spawn
C20_Witness ==
  \E r \in Requests :
    Returned(r) /\ TimedOut(r) /\ io[r].spawn = 1 /\ eventCount[r] >= 2

\* the non-blank lines of a text, in order
NonBlankLines(t) == FilterNonBlank(SplitLines(t, <<>>))

\* the texts of the parts of type text, in order
RECURSIVE TextParts(_, _)
TextParts(parts, nonEmptyOnly) ==
  IF parts = <<>> THEN <<>>
  ELSE IF ~Head(parts).isObject
       THEN IF nonEmptyOnly THEN <<>> ELSE TextParts(Tail(parts), nonEmptyOnly)
  ELSE (IF Head(parts).type = "text" /\ (~nonEmptyOnly \/ Head(parts).text # <<>>)
        THEN <<Head(parts).text>> ELSE <<>>) \o TextParts(Tail(parts), nonEmptyOnly)

\* the fragments one line is said to contribute; nonEmptyOnly selects the
\* reading in which empty strings are not captured and a null part ends the
\* line
ClaimedLine(line, nonEmptyOnly) ==
  LET d == JSONParse(line)
      e == d.value
  IN IF ~d.ok \/ ~e.isObject THEN <<>>
     ELSE IF e.type = "message" /\ e.content.kind = "string"
          THEN IF nonEmptyOnly /\ e.content.str = <<>> THEN <<>> ELSE <<e.content.str>>
     ELSE IF e.type = "message" /\ e.content.kind = "array"
          THEN TextParts(e.content.parts, nonEmptyOnly)
     ELSE IF e.type = "output_text"
          THEN IF nonEmptyOnly /\ e.text = <<>> THEN <<>> ELSE <<e.text>>
     ELSE <<>>

RECURSIVE ClaimedFragments(_, _)
ClaimedFragments(lines, nonEmptyOnly) ==
  IF lines = <<>> THEN <<>>
  ELSE ClaimedLine(Head(lines), nonEmptyOnly) \o ClaimedFragments(Tail(lines), nonEmptyOnly)

\* C13 as claimed: the content of every message with string content, the text
\* of every part of type text of a message with a list, and the text of every
\* output_text event are captured, and the result is the captured fragments
\* joined by newlines when there is at least one
C13_Original ==
  parsed.done =>
    LET fragments == ClaimedFragments(NonBlankLines(raw), FALSE)
    IN fragments # <<>> => parsed.text = Join(fragments, <<NL>>)

\* C13 amended: the same for non-empty strings only: a message's non-empty
\* string content, the non-empty text of each part of type text up to the
\* first null part, an output_text event's non-empty text;
\* with at least one fragment the result is the fragments joined by newlines
C13_CapturedFragments ==
  parsed.done =>
    LET fragments == ClaimedFragments(NonBlankLines(raw), TRUE)
    IN fragments # <<>> => parsed.text = Join(fragments, <<NL>>)

\* C13 witness: a message line 'hi' followed by an output_text line 'there' gave 'hi\nthere'
C13_Witness ==
  /\ parsed.done
  /\ raw = <<LineMsgHi, NL, LineOutThere>>
  /\ parsed.text = <<"hi", NL, "there">>

\* C14: when no fragment is captured the result is the raw text, unchanged
C14_FallbackRaw ==
  (parsed.done /\ CollectMessages(OutputLines(raw)) = <<>>) => parsed.text = raw

\* C14 witness: non-JSON output with white space at both ends came back as it was
C14_Witness ==
  parsed.done /\ raw = <<NL, LineNoise, SP>> /\ parsed.text = raw

\* C15: for an output with at least one fragment, inserting a blank line or a
\* line that does not decode, at any line position, leaves the result (the
\* fragments of the other lines, in order) as it was
C15_BadLinesSkipped ==
  (edited.done /\ CollectMessages(OutputLines(raw)) # <<>>) => edited.text = parsed.text

\* C15 witness: a non-JSON line was inserted between two event lines
C15_Witness ==
  /\ edited.done
  /\ raw = <<LineMsgHi, NL, LineOutThere>>
  /\ edited.raw = <<LineMsgHi, NL, LineNoise, NL, LineOutThere>>
  /\ edited.text = <<"hi", NL, "there">>

\* ------------------------------------------------------------------------
\* The context assembler's blocks (FileSpec)
\* ------------------------------------------------------------------------
PathAt(r, i) == args[r].context_files.list[i]
EntryAt(r, i) == fs[Resolve(PathAt(r, i))]
Header(p) == <<"--- File: ", PathText(p)>>
\* the class the statement gives a path; a missing path counts as "not a
\* regular file" when missingNotRegular, as a failed stat otherwise
ClaimedClass(p, missingNotRegular) ==
  IF ~IsString(p) THEN "invalid"
  ELSE LET entry == fs[Resolve(p)]
       IN IF entry.kind \in {"dir", "special"} THEN "notregular"
          ELSE IF entry.kind = "missing" THEN (IF missingNotRegular THEN "notregular" ELSE "error")
          ELSE IF entry.kind = "denied" THEN "error"
          ELSE IF entry.size > 5 * 1024 * 1024 THEN "toolarge"
          ELSE IF entry.kind = "unreadable" THEN "error"
          ELSE "content"
BlockOfClass(block, p, class) ==
  CASE class = "invalid" -> block = Header(p) \o <<" --- (Invalid path type)">>
    [] class = "notregular" -> block = Header(p) \o <<" --- (Not a regular file)">>
    [] class = "error" -> block = Header(p) \o <<" --- (Error reading file)">>
    [] class = "toolarge" -> /\ Len(block) > 3
                             /\ SubSeq(block, 1, 3) = Header(p) \o <<" --- (File too large: ">>
                             /\ block[Len(block)] = "MB, max 5MB)"
    [] class = "content" -> block = Header(p) \o <<" ---", NL>> \o fs[Resolve(p)].content
BlocksFollow(missingNotRegular) ==
  \A r \in Requests : \A i \in 1..Len(blocks[r]) :
    BlockOfClass(blocks[r][i], PathAt(r, i), ClaimedClass(PathAt(r, i), missingNotRegular))

\* C16 as stated: the block of a path follows its class, a missing path being
\* in the class of "(Not a regular file)" with directories and special files.
C16_Original == BlocksFollow(TRUE)

\* C16: a non-string path gives "(Invalid path type)"; a directory or a
\* special file gives "(Not a regular file)"; a regular file larger than the
\* cap gives the too-large placeholder; a missing path, like any other failed
\* stat or read, gives "(Error reading file)"; otherwise the block is the
\* header followed by the file's contents.
C16_BlockByClass == BlocksFollow(FALSE)

C16_Witness ==
  \E r \in Requests :
    /\ pc[r] = "awaiting"
    /\ args[r].context_files.list = <<GoodPath, DirPath>>
    /\ fs[Resolve(GoodPath)].kind = "missing"
    /\ fs[Resolve(DirPath)].kind = "dir"
    /\ blocks[r] = << <<"--- File: ", "notes.txt", " --- (Error reading file)">>,
                      <<"--- File: ", "src", " --- (Not a regular file)">> >>

\* the finished blocks of a request whose file was opened for reading
ReadIndexes(r) ==
  {i \in 1..Len(blocks[r]) :
     /\ IsString(PathAt(r, i))
     /\ EntryAt(r, i).kind \in {"file", "unreadable"}
     /\ EntryAt(r, i).size <= 5 * 1024 * 1024}
\* the reads a request has made, counted with their multiplicity in the list
RECURSIVE ReadsUpTo(_, _)
ReadsUpTo(r, n) ==
  IF n = 0 THEN 0 ELSE ReadsUpTo(r, n - 1) + (IF n \in ReadIndexes(r) THEN 1 ELSE 0)

\* C17: a regular file larger than 5 MiB at the size check gets the too-large
\* placeholder (6 MiB reads "6.0MB") and is never read: the reads made are
\* exactly those of the regular files within the cap; a regular file of
\* exactly 5 MiB is read and its contents are the block's body.
C17_SizeCap ==
  \A r \in Requests :
    /\ io[r].read = ReadsUpTo(r, Len(blocks[r]))
    /\ \A i \in 1..Len(blocks[r]) :
         LET p == PathAt(r, i)
             entry == EntryAt(r, i)
             block == blocks[r][i]
         IN (IsString(p) /\ entry.kind = "file") =>
              /\ entry.size > 5 * 1024 * 1024 =>
                   /\ SubSeq(block, 1, 3) = <<"--- File: ", p, " --- (File too large: ">>
                   /\ ~InText(entry.content, block)
              /\ entry.size = 6 * 1024 * 1024 =>
                   block = <<"--- File: ", p, " --- (File too large: ", "6", ".", "0", "MB, max 5MB)">>
              /\ entry.size = 5 * 1024 * 1024 =>
                   block = <<"--- File: ", p, " ---", NL>> \o entry.content

C17_Witness ==
  \E r \in Requests :
    /\ pc[r] = "awaiting"
    /\ args[r].context_files.list = <<GoodPath, DirPath>>
    /\ fs[Resolve(GoodPath)] = FileEntry("file", 6 * 1024 * 1024, <<"<text of 6 MiB>">>)
    /\ fs[Resolve(DirPath)] = FileEntry("file", 5 * 1024 * 1024, <<"<text of 5 MiB>">>)
    /\ blocks[r] = << <<"--- File: ", "notes.txt", " --- (File too large: ", "6", ".", "0", "MB, max 5MB)">>,
                      <<"--- File: ", "src", " ---", NL, "<text of 5 MiB>">> >>
    /\ io[r].stat = 2
    /\ io[r].read = 1

\* a readable regular file within the cap
GoodFile(p) ==
  /\ IsString(p)
  /\ fs[Resolve(p)].kind = "file"
  /\ fs[Resolve(p)].size <= 5 * 1024 * 1024
InFileStage(r) == pc[r] \in {"stat_file", "read_file", "compose", "awaiting"}

\* C18: for a list of 1 to 20 paths the context has one block per path, in
\* input order, each headed by its own original path, joined by a blank line;
\* the block of a good file is the header and the file's unmodified contents
\* whatever the other paths are, equal paths give equal blocks, and no file
\* ends the request: it goes on to spawn the engine.
C18_FaultContainment ==
  \A r \in Requests :
    (FileCount(r) \in 1..20 /\ io[r].stat + io[r].read > 0) =>
      /\ InFileStage(r)
      /\ responses[r] = <<>>
      /\ Len(blocks[r]) = (IF pc[r] \in {"stat_file", "read_file"} THEN fileIdx[r] - 1 ELSE FileCount(r))
      /\ \A i \in 1..Len(blocks[r]) :
           /\ SubSeq(blocks[r][i], 1, 2) = <<"--- File: ", PathText(PathAt(r, i))>>
           /\ GoodFile(PathAt(r, i)) =>
                blocks[r][i] = <<"--- File: ", PathAt(r, i), " ---", NL>> \o EntryAt(r, i).content
           /\ \A j \in 1..Len(blocks[r]) : PathAt(r, i) = PathAt(r, j) => blocks[r][i] = blocks[r][j]
      /\ pc[r] \in {"compose", "awaiting"} =>
           LET context == FileContextOf(r)
               n == Len(blocks[r])
           IN /\ context.defined
              /\ SubSeq(context.text, 1, Len(blocks[r][1])) = blocks[r][1]
              /\ SubSeq(context.text, Len(context.text) - Len(blocks[r][n]) + 1, Len(context.text)) = blocks[r][n]
              /\ \A i \in 1..(n - 1) : InText(blocks[r][i] \o <<NL, NL>> \o blocks[r][i + 1], context.text)
      /\ pc[r] = "awaiting" =>
           /\ child[r].spawned
           /\ io[r].spawn = 1

C18_Witness ==
  \E r \in Requests :
    /\ pc[r] = "awaiting"
    /\ child[r].spawned
    /\ args[r].context_files.list = <<DirPath, GoodPath>>
    /\ fs[Resolve(DirPath)].kind = "unreadable"
    /\ fs[Resolve(GoodPath)] = FileEntry("file", 5, <<"alpha", NL, "beta">>)
    /\ blocks[r] = << <<"--- File: ", "src", " --- (Error reading file)">>,
                      <<"--- File: ", "notes.txt", " ---", NL, "alpha", NL, "beta">> >>
    /\ FileContextOf(r).text = <<"--- File: ", "src", " --- (Error reading file)", NL, NL,
                                 "--- File: ", "notes.txt", " ---", NL, "alpha", NL, "beta">>

\* ------------------------------------------------------------------------
\* The configured timeout (ConfigSpec)
\* ------------------------------------------------------------------------
\* the overrides that are integers, and their values
IntegerOverrides == {"0", "-5", "4999", "5000", "250000", "600000", "600001"}
OverrideValue(e) ==
  CASE e = "0" -> 0
    [] e = "-5" -> 0 - 5
    [] e = "4999" -> 4999
    [] e = "5000" -> 5000
    [] e = "250000" -> 250000
    [] e = "600000" -> 600000
    [] e = "600001" -> 600001
Clamp(v) == IF v < 5000 THEN 5000 ELSE IF v > 600000 THEN 600000 ELSE v

\* C19: the timeout an invocation's timer is armed with, and that its timeout
\* message reports, is the override clamped to [5000, 600000] for every
\* integer override, zero and negative values included, 180000 when the
\* override is unset or not a number, and always within [5000, 600000].
C19_Original ==
  \A r \in Requests :
    timeoutHandle[r] # "none" =>
      /\ CODEX_TIMEOUT >= 5000
      /\ CODEX_TIMEOUT <= 600000
      /\ env \in {Unset, "", "abc"} => CODEX_TIMEOUT = 180000
      /\ env \in IntegerOverrides => CODEX_TIMEOUT = Clamp(OverrideValue(env))
      /\ (TimedOut(r) /\ env \in IntegerOverrides) =>
           promise[r].value = <<"Codex timed out after ", ToString(Clamp(OverrideValue(env))), "ms">>

\* ------------------------------------------------------------------------
\* Precedence of rejections, the timer after settling, the response text and
\* the composed prompt (Spec)
\* ------------------------------------------------------------------------
NoLaterIo(r) == io[r].sysRead = 0 /\ io[r].stat = 0 /\ io[r].read = 0 /\ io[r].spawn = 0

\* C27: a request gets at most one response; with an invalid role it is the
\* invalid-role rejection and the engine is never probed, whatever the engine
\* and the file count are; with a valid role and an unavailable engine it is
\* the not-available rejection, also with more than 20 files, and nothing
\* after the probe is evaluated.
C27_RejectionPrecedence ==
  \A r \in Requests :
    /\ Len(responses[r]) <= 1
    /\ (pc[r] # "idle" /\ pc[r] # "validate_role" /\ args[r].agent_role \notin AllowList) =>
         /\ Returned(r)
         /\ IsFailure(responses[r][1])
         /\ StartsWith(ResponseText(r), "Invalid agent_role: \"")
         /\ io[r].probe = 0
         /\ NoLaterIo(r)
    /\ (args[r].agent_role \in AllowList /\ io[r].probe > 0 /\ ~detection[r].available) =>
         /\ Returned(r)
         /\ IsFailure(responses[r][1])
         /\ StartsWith(ResponseText(r), "Codex CLI is not available: ")
         /\ ~InText(<<"Too many context files (max ">>, ResponseText(r))
         /\ io[r].probe = 1
         /\ NoLaterIo(r)

C27_Witness ==
  \E r \in Requests :
    /\ Returned(r)
    /\ args[r].agent_role = "hacker"
    /\ FileCount(r) = 21
    /\ StartsWith(ResponseText(r), "Invalid agent_role: \"")
    /\ io[r] = NoIo

\* C28: when an invocation is settled its timer is not pending; when it settled
\* through close, spawn error or stdin error the timer is cancelled, the
\* outcome is not a timeout, and the only kill is the one of the error
\* handler that settled it.
C28_TimerCancelledOnSettle ==
  \A r \in Requests :
    settled[r] =>
      /\ timeoutHandle[r] # "pending"
      /\ firstEvent[r].kind \in {"close", "error", "stdin_error"} =>
           /\ timeoutHandle[r] = "cleared"
           /\ ~TimedOut(r)
           /\ child[r].kills = (IF firstEvent[r].kind = "close" THEN 0 ELSE 1)

C28_Witness ==
  \E r \in Requests :
    /\ settled[r]
    /\ firstEvent[r].kind = "close"
    /\ timeoutHandle[r] = "cleared"
    /\ eventCount[r] = 2
    /\ child[r].kills = 0
    /\ Succeeded(r)

\* C22: the text of the response a request returns is never the empty string.
C22_NonEmptyResponse ==
  \A r \in Requests : Returned(r) => ResponseText(r) # <<>>

\* the prompt the statement describes: system instructions, the file context
\* when there are files, the user prompt, a blank line between sections
ClaimedPrompt(r) ==
  resolvedSystemPrompt[r]
    \o (IF FileCount(r) > 0 THEN <<NL, NL>> \o Join(blocks[r], <<NL, NL>>) ELSE <<>>)
    \o <<NL, NL>> \o args[r].prompt

\* C23: what is written to the child's stdin is the system instructions, then
\* the assembled blocks of the supplied files, then the user prompt; with
\* context_files absent or empty there is no file section at all; stdin is
\* closed after the write.
C23_PromptComposition ==
  \A r \in Requests :
    child[r].spawned =>
      /\ child[r].stdin = ClaimedPrompt(r)
      /\ child[r].stdinEnded
      /\ FileCount(r) = 0 =>
           /\ child[r].stdin = resolvedSystemPrompt[r] \o <<NL, NL>> \o args[r].prompt
           /\ ~InText(<<"--- File: ">>, child[r].stdin)
      /\ FileCount(r) > 0 => Len(blocks[r]) = FileCount(r)

C23_Witness ==
  \E r \in Requests :
    /\ child[r].spawned
    /\ args[r].context_files.list = <<GoodPath>>
    /\ child[r].stdinEnded
    /\ child[r].stdin = <<"<system-instructions role=", "architect", ">", NL, NL,
                          "--- File: ", "notes.txt", " ---", NL, "alpha", NL, "beta", NL, NL,
                          "Review", SP, "this">>

\* ------------------------------------------------------------------------
\* Two invocations at once (ConcSpec)
\* ------------------------------------------------------------------------
\* everything executeCodex keeps for one invocation
Invocation(r) ==
  <<child[r], settled[r], timeoutHandle[r], stdout[r], stderr[r], promise[r], completions[r]>>
\* the outcome of an invocation that runs alone, from its first event and the
\* output it has captured when that event arrives
AloneOutcome(ev, out, err) ==
  CASE ev.kind = "timer" -> Rejected(<<"Codex timed out after ", ToString(CODEX_TIMEOUT), "ms">>)
    [] ev.kind = "close" ->
         IF (~ev.code.isNull /\ ev.code.n = 0) \/ ~IsEmptyText(Trim(out))
         THEN Resolved(parseCodexOutput(out))
         ELSE Rejected(<<"Codex exited with code ", CodeText(ev.code), ": ">>
                         \o (IF err = <<>> THEN <<"No output">> ELSE err))
    [] ev.kind = "error" -> Rejected(<<"Failed to spawn Codex CLI: ", ev.err>>)
    [] ev.kind = "stdin_error" -> Rejected(<<"Stdin write error: ", ev.err>>)
AloneKills(ev) == IF ev.kind = "close" THEN 0 ELSE 1
AloneTimer(ev) == IF ev.kind = "timer" THEN "fired" ELSE "cleared"

\* C21: with two invocations interleaved, a step that changes what one
\* invocation keeps (child, settled flag, timer, captured output, promise)
\* changes nothing of the other; the first event of an invocation settles it
\* with the outcome, the kills and the timer state it would have alone,
\* whatever the other invocation has done; and nothing settles it again.
C21_NoInterference ==
  [][\A r \in Requests :
       /\ Invocation(r)' # Invocation(r) =>
            \A q \in Requests \ {r} : Invocation(q)' = Invocation(q)
       /\ (eventCount[r] = 0 /\ eventCount'[r] = 1) =>
            /\ settled'[r]
            /\ promise'[r] = AloneOutcome(firstEvent'[r], stdout[r], stderr[r])
            /\ child'[r].kills = AloneKills(firstEvent'[r])
            /\ timeoutHandle'[r] = AloneTimer(firstEvent'[r])
            /\ Calls(r)' = 1
       /\ Calls(r)' <= 1
       /\ settled[r] => (settled'[r] /\ promise'[r] = promise[r] /\ child'[r].kills = child[r].kills)]_vars

C21_Witness ==
  /\ firstEvent["r1"].kind = "timer"
  /\ TimedOut("r1")
  /\ child["r1"].kills = 1
  /\ firstEvent["r2"].kind = "close"
  /\ stdout["r2"] = <<LineMsgHi>>
  /\ promise["r2"] = Resolved(<<"hi">>)
  /\ child["r2"].kills = 0
  /\ timeoutHandle["r2"] = "cleared"
  /\ eventCount["r1"] = 2
  /\ eventCount["r2"] = 2

\* ------------------------------------------------------------------------
\* The size cap while files change (RaceSpec)
\* ------------------------------------------------------------------------
\* the contents a file of more than 5 MiB can have
OversizeContents ==
  {e.content : e \in {x \in FileEntries \cup RaceEntries : x.kind = "file" /\ x.size > 5 * 1024 * 1024}}

\* C29: no block carries the content of a file of more than 5 MiB, also when
\* the file changes between the size check and the read.
C29_ContentWithinCap ==
  \A r \in Requests : \A i \in 1..Len(blocks[r]) :
    \A content \in OversizeContents : ~InText(content, blocks[r][i])

\* ------------------------------------------------------------------------
\* The cleanup loops (CleanupSpec)
\* ------------------------------------------------------------------------
PageLen(n) == IF n \in DOMAIN cleanup.server THEN cleanup.server[n].len ELSE 0
\* entry i of page n is older than the retention period of the loop
OlderThanCutoff(n, i) ==
  LET pg == cleanup.server[n]
      age == pg.ages[((i - 1) % Len(pg.ages)) + 1]
  IN age > (IF cleanup.kind = "artifacts" THEN 30 ELSE 14)
Visited == 1..Len(cleanup.pagesAccessed)

\* C24: the loop requests pages 1, 2, 3, ... in order; every page before a
\* requested one held 100 entries, so no page past the first short one is
\* requested; the loop goes on exactly while the last page requested held 100
\* entries; what has been deleted is exactly the entries older than the cutoff
\* of the requested pages, each deleted once.
C24_CleanupPagination ==
  cleanup.kind \in {"artifacts", "caches"} =>
    /\ \A n \in Visited : cleanup.pagesAccessed[n] = n
    /\ \A n \in Visited : \A m \in 1..(n - 1) : PageLen(m) = 100
    /\ cleanup.page = Len(cleanup.pagesAccessed) + 1
    /\ cleanup.hasMore <=> (Visited = {} \/ PageLen(Len(cleanup.pagesAccessed)) = 100)
    /\ (Visited # {} /\ PageLen(Len(cleanup.pagesAccessed)) < 100) => ~cleanup.hasMore
    /\ cleanup.deleted =
         {(n - 1) * 100 + i : <<n, i>> \in
            {x \in (Visited \cap DOMAIN cleanup.server) \X (1..100) :
               x[2] <= PageLen(x[1]) /\ OlderThanCutoff(x[1], x[2])}}
    /\ cleanup.deleteCalls = Cardinality(cleanup.deleted)

C24_Witness ==
  /\ cleanup.kind = "artifacts"
  /\ cleanup.server[1] = [len |-> 100, ages |-> <<40>>]
  /\ cleanup.server[2] = [len |-> 99, ages |-> <<40, 20, 30, 14, 1>>]
  /\ cleanup.server[3].len = 100
  /\ cleanup.pagesAccessed = <<1, 2>>
  /\ ~cleanup.hasMore
  /\ cleanup.deleteCalls = 120
  /\ 101 \in cleanup.deleted
  /\ 103 \notin cleanup.deleted

\* ------------------------------------------------------------------------
\* The large-PR alert (AlertSpec)
\* ------------------------------------------------------------------------
\* the issue has a comment by a Bot whose body contains 'Large PR Alert'
HasBotAlert ==
  \E i \in 1..Len(alert.issue) :
    /\ alert.issue[i].user.type = "Bot"
    /\ \E k \in 1..Len(alert.issue[i].body) : alert.issue[i].body[k] = "Large PR Alert"

\* C25: once the step has run, one alert comment has been created if the issue
\* had no comment by a Bot containing 'Large PR Alert', and none if it had
\* one; before that none is created.
C25_CommentDeduplication ==
  /\ alert.phase = "done" => (alert.createCalls = 1 <=> ~HasBotAlert)
  /\ alert.phase = "done" => (alert.createCalls = 0 <=> HasBotAlert)
  /\ alert.phase \in {"start", "listed"} => alert.createCalls = 0

C25_Witness ==
  /\ alert.phase = "done"
  /\ Len(alert.issue) = 2
  /\ alert.issue[1] = [body |-> <<"Great PR!">>, user |-> [type |-> "Bot"]]
  /\ alert.issue[2] = [body |-> <<"**", "Large PR Alert", "**", NL, NL, "This is large.">>, user |-> [type |-> "User"]]
  /\ alert.createCalls = 1

\* ------------------------------------------------------------------------
\* The HUD header (HudSpec)
\* ------------------------------------------------------------------------
BothActive(h) ==
  /\ {"ralph", "autopilot"} \subseteq h.enabled
  /\ {"ralph", "autopilot"} \subseteq h.context
  /\ {"ralph", "autopilot"} \subseteq h.outputs

\* C26: when the ralph and the autopilot elements are both enabled, both
\* states are present and both render a text, the rendered header shows the
\* autopilot element and not the ralph element.
C26_AutopilotOverRalph ==
  (hud.rendered /\ BothActive(hud)) =>
    /\ \E i \in 1..Len(hud.output) : hud.output[i] = "<autopilot>"
    /\ \A i \in 1..Len(hud.output) : hud.output[i] # "<ralph>"
====
